---- MODULE Spec2Model ----
(***************************************************************************)
(* Model of the Driver Checker backend: the signed SOAP client core        *)
(* (my-app/backend/upki_client.py) and the HTTP front door                  *)
(* (my-app/backend/app.py).                                                 *)
(*                                                                         *)
(* Encoding of Python values.                                               *)
(*   - A str is a sequence of tokens (pieces of text); "" is <<>>.  String   *)
(*     concatenation / f-string formatting is \o, and `x in s` is token      *)
(*     membership.  A URI carries the token "://".                           *)
(*   - None is the one-token sequence PyNone; no str of the model holds     *)
(*     that token.                                                          *)
(*   - os.environ is a function whose DOMAIN is the set of variables set.   *)
(*   - A float is an integer number of milliseconds.                        *)
(*   - An exception is a record [cls, message, fault_code, details].        *)
(***************************************************************************)
EXTENDS Naturals, Integers, Sequences, FiniteSets, TLC

VARIABLES
    environ,          \* os.environ, restricted to the UPKI_* variables
    zeepLoggerLevel,  \* level of logging.getLogger("zeep"): process-wide
    via,              \* who called the core: "none", "direct" or "http"
    pc,               \* position inside call_pytanie_o_uprawnienia
    args,             \* its three arguments
    config,           \* its local `config`
    wsdlDoc,          \* what the client parsed from config.wsdl_path
    fault,            \* its local `fault`: the zeep Fault the remote call raised
    outcome,          \* how the core ended: a return value or an exception
    trace,            \* I/O and stage events of the current invocation
    payload,          \* request.get_json(silent=True) of the HTTP request
    response          \* the HTTP response: [status, body]

vars == <<environ, zeepLoggerLevel, via, pc, args, config, wsdlDoc, fault, outcome,
          trace, payload, response>>

----------------------------------------------------------------------------
(* Python values *)

PyNone == <<"<None>">>

\* bool(x) for x a str or None
Truthy(x) == x # PyNone /\ x # <<>>

\* `tok in s` for a str s
Contains(s, tok) == \E i \in 1..Len(s) : s[i] = tok

\* getattr(obj, name, default) on an object modelled as a record
GetAttr(obj, name, default) == IF name \in DOMAIN obj THEN obj[name] ELSE default

\* dict.get(key) on a dict modelled as a function
DictGet(d, key) == IF key \in DOMAIN d THEN d[key] ELSE PyNone

----------------------------------------------------------------------------
(* Exceptions of upki_client.py *)

\* issubclass(cls, base) for the exception classes that can leave the core.
\* "VendorError" stands for any exception raised by zeep, lxml, xmlsec or
\* Python itself that is not one of the Upki* classes.
IsSubclass(cls, base) ==
    \/ cls = base
    \/ base = "UpkiClientError" /\ cls \in {"UpkiConfigurationError", "UpkiServiceError"}

UpkiClientError(message) ==
    [cls |-> "UpkiClientError", message |-> message,
     fault_code |-> PyNone, details |-> PyNone]

UpkiConfigurationError(message) ==
    [cls |-> "UpkiConfigurationError", message |-> message,
     fault_code |-> PyNone, details |-> PyNone]

UpkiServiceError(message, fault_code, details) ==
    [cls |-> "UpkiServiceError", message |-> message,
     fault_code |-> fault_code, details |-> details]

VendorError(message) ==
    [cls |-> "VendorError", message |-> message,
     fault_code |-> PyNone, details |-> PyNone]

----------------------------------------------------------------------------
(* The process environment and the file system *)

EnvVars ==
    {"UPKI_WSDL_PATH", "UPKI_ENDPOINT_URL", "UPKI_TLS_CERT_PEM", "UPKI_TLS_KEY_PEM",
     "UPKI_CA_BUNDLE", "UPKI_WSSE_KEY_PEM", "UPKI_WSSE_CERT_PEM",
     "UPKI_CONNECT_TIMEOUT", "UPKI_READ_TIMEOUT", "UPKI_DEBUG"}

PathVars ==
    {"UPKI_WSDL_PATH", "UPKI_TLS_CERT_PEM", "UPKI_TLS_KEY_PEM", "UPKI_CA_BUNDLE",
     "UPKI_WSSE_KEY_PEM", "UPKI_WSSE_CERT_PEM"}

\* os.environ.get(name, default)
EnvGet(env, name, default) == IF name \in DOMAIN env THEN env[name] ELSE default

DefaultWsdlPath ==
    <<"C:\\\\APIUprawnieniaKierowcow\\\\wsdl.ul.uprawnienia-kierowcow.przewoznicy-1.0.1\\\\wsdl-xsd\\\\uprawnienia-kierowcow.przewoznicy.wsdl">>
DefaultEndpointUrl ==
    <<"https", "://", "185.41.93.94:6455/cepik/api/ul/UprawnieniaKierowcowPrzewoznicyService">>
DefaultTlsCertPem == <<"C:\\\\APIUprawnieniaKierowcow\\\\cert\\\\client_tls_cert.pem">>
DefaultTlsKeyPem == <<"C:\\\\APIUprawnieniaKierowcow\\\\cert\\\\client_tls_key.pem">>
DefaultWsseKeyPem == <<"C:\\\\APIUprawnieniaKierowcow\\\\cert\\\\wsse_key.pem">>
DefaultWsseCertPem == <<"C:\\\\APIUprawnieniaKierowcow\\\\cert\\\\wsse_cert.pem">>
DefaultConnectTimeout == <<"10">>
DefaultReadTimeout == <<"20">>
DefaultDebug == <<"0">>

\* Values a path variable is set to: empty, a local file that is there, a
\* local file that is not, a network URI.
PresentPath == <<"/srv/upki/present.pem">>
MissingPath == <<"/srv/upki/missing.pem">>
UriPath == <<"https", "://", "pki.example/material.pem">>
PathValues == {<<>>, PresentPath, MissingPath, UriPath}

\* The files of the deployment: the material is installed where the defaults
\* of load_config point, plus one more file.
ExistingFiles ==
    {DefaultWsdlPath, DefaultTlsCertPem, DefaultTlsKeyPem, DefaultWsseKeyPem,
     DefaultWsseCertPem, PresentPath}

\* os.path.exists(path)
PathExists(path) == path \in ExistingFiles

TimeoutValues == {<<"2.5">>, <<"0">>, <<"-1">>, <<"abc">>, <<>>}
EndpointValues == {<<>>, <<"https", "://", "stub.example/service">>}
DebugValues == {<<"1">>, <<"true">>, <<"0">>}

EnvValues(name) ==
    IF name \in PathVars THEN PathValues
    ELSE IF name \in {"UPKI_CONNECT_TIMEOUT", "UPKI_READ_TIMEOUT"} THEN TimeoutValues
    ELSE IF name = "UPKI_ENDPOINT_URL" THEN EndpointValues
    ELSE DebugValues

\* float(s): the literals of the model, in milliseconds; anything else is a
\* ValueError.
FloatLiterals == {"10", "20", "2.5", "0", "-1"}
IsFloatLiteral(s) == Len(s) = 1 /\ s[1] \in FloatLiterals
ParseFloat(s) ==
    CASE s[1] = "10" -> 10000
      [] s[1] = "20" -> 20000
      [] s[1] = "2.5" -> 2500
      [] s[1] = "0" -> 0
      [] s[1] = "-1" -> 0 - 1000

----------------------------------------------------------------------------
(* load_config *)

NoException ==
    [cls |-> "NoException", message |-> <<>>, fault_code |-> PyNone, details |-> PyNone]

\* Line 101: the values of UPKI_DEBUG that switch SOAP debugging on
DebugOn(raw) == raw \in {<<"1">>, <<"true">>, <<"True">>}

\* A variant of PathNotFound that asks the file system about URIs too
PathNotFoundAnyScheme(path) == ~PathExists(path)

\* Lines 111, 114, 119: a value that is not a network URI and names no file.
\* `and` short-circuits: the file system is asked only for a value without "://".
PathNotFound(path) == ~Contains(path, "://") /\ ~PathExists(path)

\* The os.path.exists calls one evaluation of the test above makes
Probes(path) == IF Contains(path, "://") THEN <<>> ELSE <<path>>

\* A variant of PemEntries that checks the two keys before the certificates
PemEntriesKeysFirst(tls_cert_pem, tls_key_pem, wsse_key_pem, wsse_cert_pem) ==
    << <<"UPKI_TLS_KEY_PEM", tls_key_pem>>,
       <<"UPKI_WSSE_KEY_PEM", wsse_key_pem>>,
       <<"UPKI_TLS_CERT_PEM", tls_cert_pem>>,
       <<"UPKI_WSSE_CERT_PEM", wsse_cert_pem>> >>

\* Lines 103-108: the tuple the for loop runs over, in its order
PemEntries(tls_cert_pem, tls_key_pem, wsse_key_pem, wsse_cert_pem) ==
    << <<"UPKI_TLS_CERT_PEM", tls_cert_pem>>,
       <<"UPKI_TLS_KEY_PEM", tls_key_pem>>,
       <<"UPKI_WSSE_KEY_PEM", wsse_key_pem>>,
       <<"UPKI_WSSE_CERT_PEM", wsse_cert_pem>> >>

\* Lines 103-112: the for loop from entry i on: the exception it raises (or
\* NoException) and the paths it has asked the file system about.
RECURSIVE CheckPemPaths(_, _)
CheckPemPaths(entries, i) ==
    IF i > Len(entries) THEN [exc |-> NoException, probes |-> <<>>]
    ELSE LET env_var == entries[i][1]
             path == entries[i][2]
         IN IF ~Truthy(path)
            THEN [exc |-> UpkiConfigurationError(
                              <<"Environment variable ", env_var, " must be set">>),
                  probes |-> <<>>]
            ELSE IF PathNotFound(path)
            THEN [exc |-> UpkiConfigurationError(
                              <<"File not found for ", env_var, ": ">> \o path),
                  probes |-> Probes(path)]
            ELSE LET rest == CheckPemPaths(entries, i + 1)
                 IN [exc |-> rest.exc, probes |-> Probes(path) \o rest.probes]

\* Lines 114-115: the optional CA bundle
CheckCaBundle(ca_bundle) ==
    IF Truthy(ca_bundle) /\ PathNotFound(ca_bundle)
    THEN [exc |-> UpkiConfigurationError(
                      <<"File not found for ", "UPKI_CA_BUNDLE", ": ">> \o ca_bundle),
          probes |-> Probes(ca_bundle)]
    ELSE [exc |-> NoException,
          probes |-> IF Truthy(ca_bundle) THEN Probes(ca_bundle) ELSE <<>>]

\* Lines 117-120: the service description
CheckWsdlPath(wsdl_path) ==
    IF ~Truthy(wsdl_path)
    THEN [exc |-> UpkiConfigurationError(
                      <<"Environment variable ", "UPKI_WSDL_PATH", " must be set">>),
          probes |-> <<>>]
    ELSE IF PathNotFound(wsdl_path)
    THEN [exc |-> UpkiConfigurationError(<<"WSDL", " file not found: ">> \o wsdl_path),
          probes |-> Probes(wsdl_path)]
    ELSE [exc |-> NoException, probes |-> Probes(wsdl_path)]

\* Lines 122-133
UpkiConfig(wsdl_path, service_endpoint, tls_cert_pem, tls_key_pem, ca_bundle, wsse_key_pem, wsse_cert_pem, connect_timeout, read_timeout, debug_soap) ==
    [wsdl_path |-> wsdl_path, service_endpoint |-> service_endpoint,
     tls_cert_pem |-> tls_cert_pem, tls_key_pem |-> tls_key_pem,
     ca_bundle |-> ca_bundle, wsse_key_pem |-> wsse_key_pem,
     wsse_cert_pem |-> wsse_cert_pem, connect_timeout |-> connect_timeout,
     read_timeout |-> read_timeout, debug_soap |-> debug_soap]

\* The value of the local `config` before load_config has returned
NoConfig ==
    UpkiConfig(PyNone, PyNone, PyNone, PyNone, PyNone, PyNone, PyNone, 0, 0, FALSE)

\* Lines 62-133: load_config() under environment env: [exc, config, probes].
\* exc = NoException means that config is returned.
load_config(env) ==
    LET wsdl_path == EnvGet(env, "UPKI_WSDL_PATH", DefaultWsdlPath)
        service_endpoint == EnvGet(env, "UPKI_ENDPOINT_URL", DefaultEndpointUrl)
        tls_cert_pem == EnvGet(env, "UPKI_TLS_CERT_PEM", DefaultTlsCertPem)
        tls_key_pem == EnvGet(env, "UPKI_TLS_KEY_PEM", DefaultTlsKeyPem)
        ca_bundle == EnvGet(env, "UPKI_CA_BUNDLE", PyNone)
        wsse_key_pem == EnvGet(env, "UPKI_WSSE_KEY_PEM", DefaultWsseKeyPem)
        wsse_cert_pem == EnvGet(env, "UPKI_WSSE_CERT_PEM", DefaultWsseCertPem)
        connect_raw == EnvGet(env, "UPKI_CONNECT_TIMEOUT", DefaultConnectTimeout)
        read_raw == EnvGet(env, "UPKI_READ_TIMEOUT", DefaultReadTimeout)
        debug_soap == DebugOn(EnvGet(env, "UPKI_DEBUG", DefaultDebug))
        pem == CheckPemPaths(
                   PemEntries(tls_cert_pem, tls_key_pem, wsse_key_pem, wsse_cert_pem), 1)
        ca == CheckCaBundle(ca_bundle)
        wsdl == CheckWsdlPath(wsdl_path)
        failed(exc, probes) == [exc |-> exc, config |-> NoConfig, probes |-> probes]
    IN IF ~IsFloatLiteral(connect_raw)
       THEN failed(UpkiConfigurationError(
                       <<"UPKI_CONNECT_TIMEOUT", " must be a numeric value">>), <<>>)
       ELSE IF ~IsFloatLiteral(read_raw)
       THEN failed(UpkiConfigurationError(
                       <<"UPKI_READ_TIMEOUT", " must be a numeric value">>), <<>>)
       ELSE IF pem.exc # NoException THEN failed(pem.exc, pem.probes)
       ELSE IF ca.exc # NoException THEN failed(ca.exc, pem.probes \o ca.probes)
       ELSE IF wsdl.exc # NoException
       THEN failed(wsdl.exc, pem.probes \o ca.probes \o wsdl.probes)
       ELSE [exc |-> NoException,
             config |-> UpkiConfig(wsdl_path, service_endpoint, tls_cert_pem,
                                   tls_key_pem, ca_bundle, wsse_key_pem, wsse_cert_pem,
                                   ParseFloat(connect_raw), ParseFloat(read_raw),
                                   debug_soap),
             probes |-> pem.probes \o ca.probes \o wsdl.probes]


----------------------------------------------------------------------------
(* The libraries the core calls: zeep, requests, xmlsec *)

\* serialize_object(x) and str(x) of a zeep / lxml object x: the text they
\* produce is a function of x that this model does not look into.
SerializeObject(x) == <<"serialize_object(">> \o x \o <<")">>
Str(x) == <<"str(">> \o x \o <<")">>

\* zeep.exceptions.Fault(message, code, actor, detail, subcodes): the
\* attributes a Fault object has.  str(fault) is its message.
Fault(message, code, detail) ==
    [message |-> message, code |-> code, actor |-> PyNone, detail |-> detail,
     subcodes |-> PyNone]

\* The detail elements a fault carries: none, one that serialize_object
\* handles, one on which serialize_object raises.
DetailElement == <<"<detail>", "<reason>", "not found", "</reason>", "</detail>">>
OpaqueDetail == <<"<detail>", "<opaque/>", "</detail>">>
SerializeRaises(x) == x = OpaqueDetail

\* The value of the local `fault` while no Fault has been caught
NoFault == Fault(PyNone, PyNone, PyNone)

Faults ==
    { Fault(<<"No record found">>, code, detail) :
        code \in {PyNone, <<"Client.NotFound">>},
        detail \in {PyNone, DetailElement, OpaqueDetail} }

\* What parsing the service description gives: a document with the binding
\* and the operation, one with no binding, one whose binding lacks the
\* operation, or a parse error.
WsdlDocs == {"ok", "no_bindings", "no_operation", "malformed"}

\* What the deterministic remote stub answers to a request it accepts
StubResponse(request_obj) ==
    <<"<response>">> \o request_obj.imiePierwsze \o request_obj.nazwisko
        \o request_obj.seriaNumerBlankietuDruku \o <<"</response>">>

\* How service.pytanieOUprawnienia(...) ends
RemoteBehaviours == {"response", "fault", "request_exception", "os_error", "zeep_error"}

----------------------------------------------------------------------------
(* call_pytanie_o_uprawnienia and what it calls *)

NoOutcome == [kind |-> "none", value |-> PyNone, exc |-> NoException]
Returned(value) == [kind |-> "return", value |-> value, exc |-> NoException]
Raised(exc) == [kind |-> "raise", value |-> PyNone, exc |-> exc]

NoArgs == [imie_pierwsze |-> PyNone, nazwisko |-> PyNone,
           seria_numer_blankietu |-> PyNone]

\* A variant of MissingParameter that looks at the first argument only
MissingParameterFirstOnly(imie_pierwsze, nazwisko, seria_numer_blankietu) ==
    ~Truthy(imie_pierwsze)

\* Line 189
MissingParameter(imie_pierwsze, nazwisko, seria_numer_blankietu) ==
    ~Truthy(imie_pierwsze) \/ ~Truthy(nazwisko) \/ ~Truthy(seria_numer_blankietu)

\* Lines 196-200
RequestObj(a) ==
    [imiePierwsze |-> a.imie_pierwsze, nazwisko |-> a.nazwisko,
     seriaNumerBlankietuDruku |-> a.seria_numer_blankietu]

\* Lines 170-179
_serialize_detail(detail) ==
    IF detail = PyNone THEN PyNone
    ELSE IF SerializeRaises(detail) THEN Str(detail)
    ELSE SerializeObject(detail)

\* Lines 208-215: the exception a Fault is translated to
TranslateFault(f) ==
    UpkiServiceError(f.message,
                     GetAttr(f, "faultcode", PyNone),
                     _serialize_detail(GetAttr(f, "detail", PyNone)))

\* Lines 216-218
TranslateRequestException ==
    UpkiClientError(<<"Failed to communicate with the UPKI service">>)

\* A variant of TranslateOSError that puts the key file's path in the message
TranslateOSErrorWithPath ==
    UpkiClientError(<<"Failed to read ">> \o config.tls_key_pem)

\* Lines 219-221
TranslateOSError ==
    UpkiClientError(
        <<"Failed to read certificate or key files required for UPKI access">>)

\* Lines 151-152: the level of the "zeep" logger after build_client
LoggerLevelAfterBuild(level, cfg) == IF cfg.debug_soap THEN "DEBUG" ELSE level

\* The position the core moves to when a stage raises: the exception leaves
\* the function (no handler of the function runs a stage again).
AfterRaise == "done"

\* What the except clauses of lines 208-221 do with the remote call's
\* exception: translate it and leave.
AfterCallFailure == AfterRaise


----------------------------------------------------------------------------
(* Bounds *)

\* At most this many UPKI_* variables are set in the environment at once
MaxEnvVars == 2

----------------------------------------------------------------------------
(* The environment changes between invocations *)

SetEnv(name, value) ==
    /\ pc = "idle"
    /\ Cardinality(DOMAIN environ \cup {name}) <= MaxEnvVars
    /\ EnvGet(environ, name, PyNone) # value
    /\ environ' = [n \in DOMAIN environ \cup {name} |->
                      IF n = name THEN value ELSE environ[n]]
    /\ UNCHANGED <<zeepLoggerLevel, via, pc, args, config, wsdlDoc, fault, outcome,
                   trace, payload, response>>

UnsetEnv(name) ==
    /\ pc = "idle"
    /\ name \in DOMAIN environ
    /\ environ' = [n \in DOMAIN environ \ {name} |-> environ[n]]
    /\ UNCHANGED <<zeepLoggerLevel, via, pc, args, config, wsdlDoc, fault, outcome,
                   trace, payload, response>>

----------------------------------------------------------------------------
(* call_pytanie_o_uprawnienia, stage by stage *)

ArgValues == {PyNone, <<>>, <<"KOWALSKI">>}

NoPayload == [kind |-> "none", obj |-> [f \in {} |-> <<>>]]
NoResponse == [status |-> 0, body |-> [k \in {} |-> <<>>]]

\* A direct call of the core with arguments a1, a2, a3
Invoke(a1, a2, a3) ==
    /\ pc = "idle"
    /\ via' = "direct"
    /\ args' = [imie_pierwsze |-> a1, nazwisko |-> a2, seria_numer_blankietu |-> a3]
    /\ pc' = "validate"
    /\ UNCHANGED <<environ, zeepLoggerLevel, config, wsdlDoc, fault, outcome, trace,
                   payload, response>>

\* Lines 189-190
Validate ==
    /\ pc = "validate"
    /\ IF MissingParameter(args.imie_pierwsze, args.nazwisko,
                           args.seria_numer_blankietu)
       THEN /\ outcome' = Raised(UpkiClientError(
                              <<"All parameters must be provided for the UPKI request">>))
            /\ pc' = AfterRaise
       ELSE /\ pc' = "load_config"
            /\ UNCHANGED outcome
    /\ UNCHANGED <<environ, zeepLoggerLevel, via, args, config, wsdlDoc, fault, trace,
                   payload, response>>

\* The events of one load_config call: the call, then one per os.path.exists
ExistsEvents(probes) == [i \in 1..Len(probes) |-> <<"os.path.exists">> \o probes[i]]

\* Line 192
LoadConfig ==
    /\ pc = "load_config"
    /\ LET r == load_config(environ)
       IN /\ trace' = trace \o << <<"load_config">> >> \o ExistsEvents(r.probes)
          /\ IF r.exc # NoException
             THEN /\ outcome' = Raised(r.exc)
                  /\ pc' = AfterRaise
                  /\ UNCHANGED config
             ELSE /\ config' = r.config
                  /\ pc' = "build_client"
                  /\ UNCHANGED outcome
    /\ UNCHANGED <<environ, zeepLoggerLevel, via, args, wsdlDoc, fault, payload, response>>

\* Line 193, build_client (lines 148-157) with build_transport (136-145):
\* Signature reads the signing key and certificate, Client loads and parses
\* the service description.  Neither call stands in a try block.
BuildClient ==
    /\ pc = "build_client"
    /\ zeepLoggerLevel' = LoggerLevelAfterBuild(zeepLoggerLevel, config)
    /\ \E material \in {"readable", "unreadable"}, doc \in WsdlDocs :
          IF material = "unreadable"
          THEN /\ trace' = trace \o << <<"build_client">>, <<"Signature">> >>
               /\ outcome' = Raised(VendorError(
                                 <<"xmlsec: cannot load key ">> \o config.wsse_key_pem))
               /\ pc' = AfterRaise
               /\ UNCHANGED wsdlDoc
          ELSE IF doc = "malformed"
          THEN /\ trace' = trace \o << <<"build_client">>, <<"Signature">>,
                                       <<"build_transport">>, <<"Client">> >>
               /\ outcome' = Raised(VendorError(
                                 <<"XMLSyntaxError in ">> \o config.wsdl_path))
               /\ pc' = AfterRaise
               /\ UNCHANGED wsdlDoc
          ELSE /\ trace' = trace \o << <<"build_client">>, <<"Signature">>,
                                       <<"build_transport">>, <<"Client">> >>
               /\ wsdlDoc' = doc
               /\ pc' = "create_service_proxy"
               /\ UNCHANGED outcome
    /\ UNCHANGED <<environ, via, args, config, fault, payload, response>>

\* Line 194, _create_service_proxy (lines 160-167)
CreateServiceProxy ==
    /\ pc = "create_service_proxy"
    /\ trace' = trace \o << <<"_create_service_proxy">> >>
    /\ IF wsdlDoc = "no_bindings"
       THEN /\ outcome' = Raised(UpkiConfigurationError(
                              <<"The provided WSDL does not define any bindings">>))
            /\ pc' = AfterRaise
       ELSE /\ pc' = "call"
            /\ UNCHANGED outcome
    /\ UNCHANGED <<environ, zeepLoggerLevel, via, args, config, wsdlDoc, fault,
                   payload, response>>

\* Lines 202-221.  Looking up an operation the binding lacks raises
\* AttributeError before anything is sent.
Call ==
    /\ pc = "call"
    /\ IF wsdlDoc = "no_operation"
       THEN /\ trace' = trace
            /\ outcome' = Raised(VendorError(
                              <<"AttributeError: Service has no operation ",
                                "pytanieOUprawnienia">>))
            /\ pc' = AfterRaise
            /\ UNCHANGED fault
       ELSE /\ trace' = trace \o << <<"pytanieOUprawnienia">> >>
            /\ \E behaviour \in RemoteBehaviours, raisedFault \in Faults :
                 CASE behaviour = "response" ->
                        /\ outcome' = Returned(SerializeObject(
                                          StubResponse(RequestObj(args))))
                        /\ pc' = "done"
                        /\ UNCHANGED fault
                   [] behaviour = "fault" ->
                        /\ fault' = raisedFault
                        /\ outcome' = Raised(TranslateFault(raisedFault))
                        /\ pc' = AfterCallFailure
                   [] behaviour = "request_exception" ->
                        /\ outcome' = Raised(TranslateRequestException)
                        /\ pc' = AfterCallFailure
                        /\ UNCHANGED fault
                   [] behaviour = "os_error" ->
                        /\ outcome' = Raised(TranslateOSError)
                        /\ pc' = AfterCallFailure
                        /\ UNCHANGED fault
                   [] behaviour = "zeep_error" ->
                        /\ outcome' = Raised(VendorError(
                                          <<"zeep.exceptions.TransportError">>))
                        /\ pc' = AfterRaise
                        /\ UNCHANGED fault
    /\ UNCHANGED <<environ, zeepLoggerLevel, via, args, config, wsdlDoc, payload,
                   response>>

\* The invocation is over: the caller has the outcome (a direct call) or the
\* response has been sent; the locals of the invocation are gone.
Finish ==
    /\ \/ pc = "done" /\ via = "direct"
       \/ pc = "responded"
    /\ pc' = "idle"
    /\ via' = "none"
    /\ args' = NoArgs
    /\ config' = NoConfig
    /\ wsdlDoc' = "unparsed"
    /\ fault' = NoFault
    /\ outcome' = NoOutcome
    /\ trace' = <<>>
    /\ payload' = NoPayload
    /\ response' = NoResponse
    /\ UNCHANGED <<environ, zeepLoggerLevel>>


----------------------------------------------------------------------------
(* The HTTP front door: pytanie_o_uprawnienia_endpoint of app.py *)

\* Lines 50-54
RequiredFields == <<"imiePierwsze", "nazwisko", "seriaNumerBlankietuDruku">>

\* request.get_json(silent=True): None when the body is not JSON, else the
\* parsed value: a JSON object, or JSON that is not an object (an array).
FieldValues == {<<>>, <<"KOWALSKI">>}
Payloads ==
    {NoPayload, [kind |-> "array", obj |-> [f \in {} |-> <<>>]]}
    \cup { [kind |-> "object", obj |-> o] :
             o \in UNION { [D -> FieldValues] :
                             D \in SUBSET {"imiePierwsze", "nazwisko",
                                           "seriaNumerBlankietuDruku"} } }

\* Line 55
MissingFields(obj) ==
    SelectSeq(RequiredFields, LAMBDA field : ~Truthy(DictGet(obj, field)))

Response(status, body) == [status |-> status, body |-> body]

\* Flask's answer when the view function raises an exception it does not
\* catch: 500 with a fixed page.
InternalServerError ==
    Response(500, [html |-> <<"Internal Server Error">>])

\* Lines 44-48
NotJsonResponse == Response(400, [error |-> <<"Request body must be valid JSON.">>])

\* Lines 56-65
MissingFieldsResponse(missing) ==
    Response(400, [error |-> <<"Missing required request fields.">>,
                   fields |-> missing])

\* Lines 78-82: the body of the answer to a service fault
FaultBody(exc) ==
    LET keys == {"error"}
                \cup (IF Truthy(exc.fault_code) THEN {"faultCode"} ELSE {})
                \cup (IF exc.details # PyNone THEN {"details"} ELSE {})
    IN [k \in keys |-> CASE k = "error" -> exc.message
                         [] k = "faultCode" -> exc.fault_code
                         [] k = "details" -> exc.details]

\* Lines 73-86: the except clauses, in their order; an exception none of
\* them names leaves the view function.
ErrorResponse(exc) ==
    IF IsSubclass(exc.cls, "UpkiConfigurationError")
    THEN Response(500, [error |-> exc.message])
    ELSE IF IsSubclass(exc.cls, "UpkiServiceError")
    THEN Response(502, FaultBody(exc))
    ELSE IF IsSubclass(exc.cls, "UpkiClientError")
    THEN Response(502, [error |-> exc.message])
    ELSE InternalServerError

\* Line 88
DataResponse(result) == Response(200, [data |-> result])

\* Lines 43-72: a request arrives; the handler answers at once or calls the
\* core.  payload.get on JSON that is not an object raises AttributeError.
HttpRequest(p) ==
    /\ pc = "idle"
    /\ via' = "http"
    /\ payload' = p
    /\ IF p.kind = "none"
       THEN /\ response' = NotJsonResponse
            /\ pc' = "responded"
            /\ UNCHANGED args
       ELSE IF p.kind = "array"
       THEN /\ response' = InternalServerError
            /\ pc' = "responded"
            /\ UNCHANGED args
       ELSE IF MissingFields(p.obj) # <<>>
       THEN /\ response' = MissingFieldsResponse(MissingFields(p.obj))
            /\ pc' = "responded"
            /\ UNCHANGED args
       ELSE /\ args' = [imie_pierwsze |-> p.obj["imiePierwsze"],
                        nazwisko |-> p.obj["nazwisko"],
                        seria_numer_blankietu |-> p.obj["seriaNumerBlankietuDruku"]]
            /\ pc' = "validate"
            /\ UNCHANGED response
    /\ UNCHANGED <<environ, zeepLoggerLevel, config, wsdlDoc, fault, outcome, trace>>

\* Lines 73-88: the core has ended; the handler answers
HttpRespond ==
    /\ pc = "done"
    /\ via = "http"
    /\ response' = IF outcome.kind = "return"
                   THEN DataResponse(outcome.value)
                   ELSE ErrorResponse(outcome.exc)
    /\ pc' = "responded"
    /\ UNCHANGED <<environ, zeepLoggerLevel, via, args, config, wsdlDoc, fault,
                   outcome, trace, payload>>

----------------------------------------------------------------------------
(* The specification *)

Init ==
    /\ environ = [n \in {} |-> <<>>]
    /\ zeepLoggerLevel = "NOTSET"
    /\ via = "none"
    /\ pc = "idle"
    /\ args = NoArgs
    /\ config = NoConfig
    /\ wsdlDoc = "unparsed"
    /\ fault = NoFault
    /\ outcome = NoOutcome
    /\ trace = <<>>
    /\ payload = NoPayload
    /\ response = NoResponse

Next ==
    \/ \E name \in EnvVars : \E value \in EnvValues(name) : SetEnv(name, value)
    \/ \E name \in EnvVars : UnsetEnv(name)
    \/ \E a1 \in ArgValues, a2 \in ArgValues, a3 \in ArgValues : Invoke(a1, a2, a3)
    \/ Validate
    \/ LoadConfig
    \/ BuildClient
    \/ CreateServiceProxy
    \/ Call
    \/ Finish
    \/ \E p \in Payloads : HttpRequest(p)
    \/ HttpRespond

Spec == Init /\ [][Next]_vars


----------------------------------------------------------------------------
(* Vocabulary of the properties *)

Range(f) == {f[i] : i \in DOMAIN f}

IsPrefix(s, t) == Len(s) <= Len(t) /\ SubSeq(t, 1, Len(s)) = s

\* The stages of one invocation after Validate, in the order of the spec:
\* Configure, Build (client, then service proxy), Call.
StageOrder ==
    << <<"load_config">>, <<"build_client">>, <<"_create_service_proxy">>,
       <<"pytanieOUprawnienia">> >>

\* The stage events of a trace, in the order they happened
Stages(t) == SelectSeq(t, LAMBDA e : e \in Range(StageOrder))

\* How often the remote operation has been invoked in this invocation
RemoteCalls == Len(SelectSeq(trace, LAMBDA e : e = <<"pytanieOUprawnienia">>))

\* The core has ended (and, behind the front door, may have been answered)
CoreEnded == pc \in {"done", "responded"} /\ outcome # NoOutcome

\* The core ended with one of its own exception classes
NormalizedFailure ==
    /\ CoreEnded
    /\ outcome.kind = "raise"
    /\ outcome.exc.cls \in
           {"UpkiClientError", "UpkiConfigurationError", "UpkiServiceError"}

InvalidInputMessage == <<"All parameters must be provided for the UPKI request">>
TransportMessages ==
    { <<"Failed to communicate with the UPKI service">>,
      <<"Failed to read certificate or key files required for UPKI access">> }

\* Some argument of the current invocation is empty or absent
SomeArgumentMissing ==
    \E a \in {args.imie_pierwsze, args.nazwisko, args.seria_numer_blankietu} :
        a = PyNone \/ a = <<>>

\* The settings load_config validates, in the order it checks them
CheckOrder ==
    <<"UPKI_CONNECT_TIMEOUT", "UPKI_READ_TIMEOUT", "UPKI_TLS_CERT_PEM",
      "UPKI_TLS_KEY_PEM", "UPKI_WSSE_KEY_PEM", "UPKI_WSSE_CERT_PEM",
      "UPKI_CA_BUNDLE", "UPKI_WSDL_PATH">>

\* The value a setting has in the current environment (its default if unset)
Setting(name) ==
    IF name \in DOMAIN environ THEN environ[name]
    ELSE CASE name = "UPKI_WSDL_PATH" -> DefaultWsdlPath
           [] name = "UPKI_ENDPOINT_URL" -> DefaultEndpointUrl
           [] name = "UPKI_TLS_CERT_PEM" -> DefaultTlsCertPem
           [] name = "UPKI_TLS_KEY_PEM" -> DefaultTlsKeyPem
           [] name = "UPKI_WSSE_KEY_PEM" -> DefaultWsseKeyPem
           [] name = "UPKI_WSSE_CERT_PEM" -> DefaultWsseCertPem
           [] name = "UPKI_CONNECT_TIMEOUT" -> DefaultConnectTimeout
           [] name = "UPKI_READ_TIMEOUT" -> DefaultReadTimeout
           [] name = "UPKI_DEBUG" -> DefaultDebug
           [] name = "UPKI_CA_BUNDLE" -> PyNone

IsUri(v) == \E i \in 1..Len(v) : v[i] = "://"
IsLocalPath(v) == v # PyNone /\ v # <<>> /\ ~IsUri(v)

\* A setting is defective: a timeout that is no number; a path that is empty,
\* or local and not there.  The trust anchor is optional: it counts as set
\* when it is non-empty (what "must be set" means in load_config's messages).
Defective(name) ==
    LET v == Setting(name)
    IN CASE name \in {"UPKI_CONNECT_TIMEOUT", "UPKI_READ_TIMEOUT"} ->
              ~(Len(v) = 1 /\ v[1] \in {"10", "20", "2.5", "0", "-1"})
         [] name = "UPKI_CA_BUNDLE" -> IsLocalPath(v) /\ v \notin ExistingFiles
         [] OTHER -> v = <<>> \/ (IsLocalPath(v) /\ v \notin ExistingFiles)

DefectiveSettings == {name \in Range(CheckOrder) : Defective(name)}

FirstDefective ==
    CheckOrder[CHOOSE i \in 1..Len(CheckOrder) :
                   /\ Defective(CheckOrder[i])
                   /\ \A j \in 1..(i - 1) : ~Defective(CheckOrder[j])]

\* The settings a message names: by the name of the variable, or, for the
\* service description, as "WSDL"
NamedSettings(message) ==
    {name \in EnvVars : \E i \in 1..Len(message) : message[i] = name}
    \cup (IF \E i \in 1..Len(message) : message[i] = "WSDL"
          THEN {"UPKI_WSDL_PATH"} ELSE {})

\* load_config has run in this invocation / it raised
LoadConfigRan == Len(trace) >= 1 /\ trace[1] = <<"load_config">>
LoadConfigRaised ==
    /\ CoreEnded
    /\ outcome.kind = "raise"
    /\ Stages(trace) = << <<"load_config">> >>

\* The local files the configuration points at
ConfiguredLocalPaths == {Setting(name) : name \in {n \in PathVars : IsLocalPath(Setting(n))}}

\* A message holds the text of path p
HoldsPath(message, p) ==
    \E i \in 1..Len(message) : SubSeq(message, i, i + Len(p) - 1) = p

----------------------------------------------------------------------------
(* C1 *)

\* C1: an invocation in which some argument is empty or absent fails with a
\* UpkiClientError carrying the invalid-input message (the code's form of
\* kind InvalidInput), and up to that failure nothing has been loaded,
\* probed, built or sent.
C1_InvalidInputBeforeAnyIO ==
    (pc \notin {"idle", "responded"} /\ SomeArgumentMissing) =>
        /\ pc \in {"validate", "done"}
        /\ trace = <<>>
        /\ config = NoConfig
        /\ wsdlDoc = "unparsed"
        /\ fault = NoFault
        /\ pc = "done" =>
              /\ outcome.kind = "raise"
              /\ outcome.exc.cls = "UpkiClientError"
              /\ outcome.exc.message = InvalidInputMessage

\* An invocation whose second argument alone is absent has failed
C1_Witness ==
    /\ pc = "done"
    /\ args.imie_pierwsze = <<"KOWALSKI">>
    /\ args.nazwisko = PyNone
    /\ args.seria_numer_blankietu = <<"KOWALSKI">>
    /\ outcome.kind = "raise"

----------------------------------------------------------------------------
(* C2 *)

\* C2: every invocation ends in a result or in an error of the normalized
\* family (UpkiClientError and its two subclasses); no other exception type
\* leaves call_pytanie_o_uprawnienia.
C2_OnlyNormalizedErrorsLeave ==
    (pc = "done") =>
        \/ outcome.kind = "return"
        \/ /\ outcome.kind = "raise"
           /\ outcome.exc.cls \in
                  {"UpkiClientError", "UpkiConfigurationError", "UpkiServiceError"}

----------------------------------------------------------------------------
(* C3 *)

\* C3: every configuration load_config returns is fully valid: each path
\* that is not a network URI names an existing file, every required field
\* (the endpoint included) is non-empty, both timeouts are positive.
C3_ReturnedConfigurationIsValid ==
    (config # NoConfig) =>
        /\ \A p \in {config.wsdl_path, config.tls_cert_pem, config.tls_key_pem,
                     config.wsse_key_pem, config.wsse_cert_pem} :
              p # <<>> /\ (IsUri(p) \/ p \in ExistingFiles)
        /\ IsLocalPath(config.ca_bundle) => config.ca_bundle \in ExistingFiles
        /\ config.service_endpoint # <<>>
        /\ config.connect_timeout > 0
        /\ config.read_timeout > 0


----------------------------------------------------------------------------
(* C4 *)

\* C4, as stated: when more than one setting is defective, the
\* UpkiConfigurationError of load_config reports every defective setting.
C4_ReportsEveryDefect ==
    (LoadConfigRaised /\ Cardinality(DefectiveSettings) > 1) =>
        DefectiveSettings \subseteq NamedSettings(outcome.exc.message)

\* C4, amended: load_config checks the settings in a fixed order (connect
\* timeout, read timeout, TLS certificate, TLS key, signing key, signing
\* certificate, CA bundle, service description) and fails at the first
\* defective one: its UpkiConfigurationError names that setting and no
\* other.  It returns a configuration only when no setting is defective.
C4_ReportsFirstDefect ==
    /\ (LoadConfigRan /\ DefectiveSettings # {}) =>
          /\ LoadConfigRaised
          /\ outcome.exc.cls = "UpkiConfigurationError"
          /\ NamedSettings(outcome.exc.message) = {FirstDefective}
    /\ (LoadConfigRan /\ DefectiveSettings = {}) =>
          /\ ~LoadConfigRaised
          /\ config # NoConfig

\* load_config has failed on an environment with two defective settings
C4_Witness ==
    /\ LoadConfigRaised
    /\ Cardinality(DefectiveSettings) = 2
    /\ outcome.exc.cls = "UpkiConfigurationError"

----------------------------------------------------------------------------
(* C5 *)

\* C5: for each path setting taken alone (every other setting valid): if it
\* is empty, or a local path that does not exist, load_config fails with a
\* UpkiConfigurationError naming that setting; if it holds "://", it is
\* accepted and the file system is never asked about it.  The trust anchor
\* is "set" when it is non-empty.
C5_EachPathSettingAlone ==
    \A name \in PathVars :
        /\ (LoadConfigRan /\ DefectiveSettings = {name}) =>
              /\ LoadConfigRaised
              /\ outcome.exc.cls = "UpkiConfigurationError"
              /\ name \in NamedSettings(outcome.exc.message)
        /\ (LoadConfigRan /\ DefectiveSettings \subseteq {name} /\ IsUri(Setting(name))) =>
              /\ ~LoadConfigRaised
              /\ config # NoConfig
              /\ \A i \in 1..Len(trace) :
                    trace[i] # <<"os.path.exists">> \o Setting(name)

\* load_config has failed on an environment whose only defect is the
\* missing file of the signing certificate
C5_Witness ==
    /\ LoadConfigRaised
    /\ DefectiveSettings = {"UPKI_WSSE_CERT_PEM"}
    /\ Setting("UPKI_WSSE_CERT_PEM") = MissingPath

----------------------------------------------------------------------------
(* C6 *)

\* C6: when the remote call raises a Fault, the core fails with a
\* UpkiServiceError whose fault_code is the fault's code and whose details
\* is the serialized detail (its text if serializing fails, None if the
\* fault has no detail).
C6_FaultCodeAndDetailsPreserved ==
    (CoreEnded /\ fault # NoFault) =>
        /\ outcome.kind = "raise"
        /\ outcome.exc.cls = "UpkiServiceError"
        /\ outcome.exc.fault_code = fault.code
        /\ outcome.exc.details =
              (IF fault.detail = PyNone THEN PyNone
               ELSE IF fault.detail = OpaqueDetail
               THEN <<"str(">> \o fault.detail \o <<")">>
               ELSE <<"serialize_object(">> \o fault.detail \o <<")">>)

----------------------------------------------------------------------------
(* C7 *)

\* C7, as stated: no normalized error that reaches the caller (or the HTTP
\* response body) holds a local file path of the configuration or the text
\* of a raw internal exception.
C7_NoPathOrRawTextInErrors ==
    NormalizedFailure =>
        /\ \A p \in ConfiguredLocalPaths : ~HoldsPath(outcome.exc.message, p)
        /\ fault # NoFault => outcome.exc.message # fault.message
        /\ (pc = "responded") =>
              \A p \in ConfiguredLocalPaths : ~HoldsPath(response.body.error, p)

\* C7, amended: the message of an invalid-input or transport error is one
\* of three fixed texts.  A UpkiConfigurationError holds a configured local
\* path only when load_config reports that very file as not found (the
\* message names the setting and ends with its path), and a
\* UpkiServiceError carries the text of the remote fault.  The front door
\* copies the message into the response body unchanged.
C7_MessagesOfNormalizedErrors ==
    NormalizedFailure =>
        LET message == outcome.exc.message
        IN /\ (outcome.exc.cls = "UpkiClientError") =>
                 message \in {InvalidInputMessage} \cup TransportMessages
           /\ (outcome.exc.cls = "UpkiServiceError") =>
                 fault # NoFault /\ message = fault.message
           /\ (outcome.exc.cls = "UpkiConfigurationError") =>
                 \A p \in ConfiguredLocalPaths :
                    HoldsPath(message, p) =>
                       /\ LoadConfigRaised
                       /\ p \notin ExistingFiles
                       /\ Setting(FirstDefective) = p
                       /\ SubSeq(message, Len(message) - Len(p) + 1, Len(message)) = p
           /\ (pc = "responded") => response.body.error = message

\* A transport failure has been answered by the front door
C7_Witness ==
    /\ pc = "responded"
    /\ NormalizedFailure
    /\ outcome.exc.message =
          <<"Failed to read certificate or key files required for UPKI access">>

----------------------------------------------------------------------------
(* C8 *)

\* The request body is a JSON object with all three fields non-empty
CompletePayload ==
    /\ payload.kind = "object"
    /\ \A f \in {"imiePierwsze", "nazwisko", "seriaNumerBlankietuDruku"} :
          f \in DOMAIN payload.obj /\ payload.obj[f] # <<>>

\* C8: the front door answers 400 without calling the core when the body is
\* not JSON or lacks a required field; invalid input 400, configuration 500,
\* service fault 502 (with faultCode and details when present), transport
\* 502, success 200 with the result under "data"; no other status.
C8_StatusMapping ==
    (pc = "responded") =>
        /\ response.status \in {200, 400, 500, 502}
        /\ ~CompletePayload =>
              /\ response.status = 400
              /\ outcome = NoOutcome
              /\ trace = <<>>
        /\ (CompletePayload /\ outcome.kind = "return") =>
              /\ response.status = 200
              /\ response.body = [data |-> outcome.value]
        /\ (CompletePayload /\ outcome.kind = "raise") =>
              LET exc == outcome.exc
              IN CASE exc.cls = "UpkiConfigurationError" -> response.status = 500
                   [] exc.cls = "UpkiServiceError" ->
                        /\ response.status = 502
                        /\ (exc.fault_code \notin {PyNone, <<>>}) =>
                              /\ "faultCode" \in DOMAIN response.body
                              /\ response.body.faultCode = exc.fault_code
                        /\ (exc.details # PyNone) =>
                              /\ "details" \in DOMAIN response.body
                              /\ response.body.details = exc.details
                   [] exc.cls = "UpkiClientError" ->
                        response.status =
                            (IF exc.message = InvalidInputMessage THEN 400 ELSE 502)
                   [] OTHER -> TRUE

----------------------------------------------------------------------------
(* C9 *)

\* C9: invocations share no state: a successful call returns the stub's
\* answer to its own arguments, the configuration in use is the one the
\* environment of that call gives, and no call changes process-wide state
\* for a later call to observe: between invocations the level of the "zeep"
\* logger is what it was when the process started.
C9_NoSharedState ==
    /\ (CoreEnded /\ outcome.kind = "return") =>
          outcome.value =
              <<"serialize_object(", "<response>">> \o args.imie_pierwsze
                  \o args.nazwisko \o args.seria_numer_blankietu
                  \o <<"</response>", ")">>
    /\ (config # NoConfig) =>
          \A name \in PathVars \ {"UPKI_CA_BUNDLE"} :
              Setting(name) \in {config.wsdl_path, config.tls_cert_pem,
                                 config.tls_key_pem, config.wsse_key_pem,
                                 config.wsse_cert_pem}
    /\ (pc = "idle") => zeepLoggerLevel = "NOTSET"

----------------------------------------------------------------------------
(* C10 *)

\* Configure and Build have succeeded: the service proxy exists
BuildSucceeded ==
    /\ Len(Stages(trace)) >= 3
    /\ wsdlDoc \in {"ok", "no_operation"}

\* C10: the stages run strictly in the order Validate, Configure, Build,
\* Call with no retries: a stage starts only after the earlier ones have
\* succeeded, a failure ends the invocation, and the remote operation is
\* invoked at most once, exactly once when Validate, Configure and Build
\* have all succeeded.
C10_ExactlyOnceAfterBuild ==
    /\ IsPrefix(Stages(trace), StageOrder)
    /\ (outcome # NoOutcome) => pc \in {"done", "responded"}
    /\ (pc \in {"load_config", "build_client", "create_service_proxy", "call"}) =>
          ~SomeArgumentMissing
    /\ RemoteCalls <= 1
    /\ (CoreEnded /\ BuildSucceeded) => RemoteCalls = 1

====
